---- MODULE Spec2Model ----
(***************************************************************************)
(* wikiExplorer: the Cross-Edge Connectivity Engine                        *)
(* (backend/core/cross_edges.py, calculate_global_cross_edges) over the    *)
(* cached_edges table (backend/models/__init__.py, CachedEdge), the        *)
(* ranker (backend/core/ranking.py) and the request that uses both         *)
(* (backend/routes/search_routes.py, get_related).                         *)
(*                                                                         *)
(* Scores are cosine similarities in hundredths (0.62 is 62).  A call of   *)
(* calculate_global_cross_edges is a process that goes through the steps   *)
(* of the function; the steps are cut where the function talks to the      *)
(* shared database: the cache query (STEP A), one existence query per      *)
(* edge to save and the commit (STEP C).  The database is PostgreSQL at    *)
(* its default isolation, READ COMMITTED: every query sees what is         *)
(* committed when it runs, and the rows a session adds become visible, or  *)
(* are refused by the primary key, when it commits.                        *)
(***************************************************************************)
EXTENDS Integers, Sequences, FiniteSets, Bags, TLC

\* Number of article ids of the corpus (a bound of the model).
NumIds == 3
\* Number of requests that can be in flight at once (a bound of the model).
NumRequests == 2

Ids == 1..NumIds
\* The requests that race in Spec, and with one more, in Spec3.
Requests == 1..NumRequests
AllRequests == 1..(NumRequests + 1)

\* threshold=0.62, the default of calculate_global_cross_edges and the value
\* get_related passes.
DefaultThreshold == 62
\* Config.CROSS_EDGE_THRESHOLD = 0.65, the other threshold of the repository.
ConfigThreshold == 65
\* max_edges_per_node=5, the default of calculate_global_cross_edges.
DefaultMaxEdges == 5

Thresholds == {DefaultThreshold, ConfigThreshold}
\* Caps a caller passes: the default, and 1 (the cap cuts a row of the matrix).
Caps == {1, DefaultMaxEdges}

\* The similarity levels of two different articles: 64 lies between the two
\* thresholds, 80 above both.
ScoreLevels == {64, 80}

NoUser == "None"
Users == {"u1"}
ModelVersion == "all-MiniLM-L6-v2"

VARIABLES
  cos,               \* index: cos[<<a, b>>] for a < b, the cosine of the reconstructed vectors
  reconstructable,   \* index: the ids index.reconstruct(id) succeeds for
  titled,            \* metadata db: the ids with a row in articles
  cached_edges,      \* the cached_edges table: the bag of its committed rows
  edges_discovered,  \* users.edges_discovered, per user (committed)
  pc,                \* per request: where the call is
  args,              \* per request: the arguments of the call
  combined_edges,    \* per request: the dict combined_edges
  resolved_nodes,    \* per request: the set resolved_nodes
  edges_to_save,     \* per request: the list edges_to_save
  next_edge,         \* per request: position of the STEP C loop in edges_to_save
  session_new,       \* per request: the rows the call gave db.session.add
  user_loaded,       \* per request: users.edges_discovered as the session loaded it (-1: not loaded)
  final_output,      \* per request: the returned list, as a set
  failures,          \* per request: the exceptions the call caught
  committed,         \* per request: the rows the call's commit wrote (history)
  is_repeat,         \* per request: the call repeats the previous one (history)
  prev_call,         \* per request: output and failures of the previous call (history)
  articles,          \* metadata db: the rows of articles, by article_id
  total_searches,    \* users.total_searches, per user (committed)
  public_searches,   \* the public_searches table: search_count by search_query
  req,               \* the /related request: its body and what its collaborators answer
  rpc,               \* where get_related is
  results,           \* get_related: the list results, after its sort
  top_results,       \* get_related: the list top_results
  cross_edges,       \* get_related: the list cross_edges, as a set
  response,          \* what get_related answered
  scored,            \* a call of calculate_multisignal_score: its arguments and its result
  analytics          \* per request: where its analytics block is and what its session holds

env == <<cos, reconstructable, titled>>
db == <<cached_edges, edges_discovered>>
locals == <<pc, args, combined_edges, resolved_nodes, edges_to_save, next_edge,
            session_new, user_loaded, final_output, failures, committed,
            is_repeat, prev_call>>
vars == <<cos, reconstructable, titled, cached_edges, edges_discovered,
          pc, args, combined_edges, resolved_nodes, edges_to_save, next_edge,
          session_new, user_loaded, final_output, failures, committed,
          is_repeat, prev_call, articles, total_searches, public_searches,
          req, rpc, results, top_results, cross_edges, response, scored, analytics>>
web == <<articles, total_searches, public_searches, req, rpc, results, top_results,
         cross_edges, response>>

----------------------------------------------------------------------------
\* Helpers

Pairs == {k \in Ids \X Ids : k[1] < k[2]}

Min(a, b) == IF a <= b THEN a ELSE b
Max(a, b) == IF a <= b THEN b ELSE a

\* tuple(sorted([a, b]))
SortedPair(a, b) == <<Min(a, b), Max(a, b)>>

\* list(a_set): the ids in ascending order (the order CPython gives a set of
\* small ints; the order only fixes in which order rows are visited).
RECURSIVE SetToList(_)
SetToList(S) ==
  IF S = {} THEN <<>>
  ELSE LET m == CHOOSE x \in S : \A y \in S : x <= y
       IN <<m>> \o SetToList(S \ {m})

Range(s) == {s[i] : i \in DOMAIN s}

\* util.cos_sim of the reconstructed vectors of a and b (a vector and itself:
\* 1.0).
CosSim(a, b) == IF a = b THEN 100 ELSE cos[SortedPair(a, b)]

\* dict update d[k] = v
DictPut(d, k, v) == [x \in DOMAIN d \cup {k} |-> IF x = k THEN v ELSE d[x]]

EmptyDict == [x \in {} |-> 0]

\* The title the articles table holds for an id.
Title(id) == <<"title", id>>

\* A row of cached_edges as CachedEdge(...) builds it.
CachedEdge(source_id, target_id, score, user) ==
  [source_id |-> source_id, target_id |-> target_id, score |-> score,
   model_version |-> ModelVersion, created_by_user_id |-> user]

RowKey(row) == <<row.source_id, row.target_id>>

\* The rows of the cached_edges table.
Rows == BagToSet(cached_edges)

\* Variant of ExceptException: handlers written "except IntegrityError".
ExceptIntegrityErrorOnly(exc) == exc = "IntegrityError"

\* "except Exception as e" of STEP C and of STEP B: the exceptions the
\* handlers catch (every exception a collaborator raises is an Exception).
ExceptException(exc) == TRUE

----------------------------------------------------------------------------
\* 1. Normalize Inputs

new_ids_set(a) == a.new_node_ids

\* Variant of existing_ids_set without "if int(nid) not in new_ids_set".
existing_ids_unfiltered(a) == a.existing_node_ids

existing_ids_set(a) == {nid \in a.existing_node_ids : nid \notin new_ids_set(a)}

----------------------------------------------------------------------------
\* STEP A: Query Cache

\* CachedEdge.query.filter(source_id IN new_ids | target_id IN new_ids).all()
cached_results(a, table) ==
  {row \in table : row.source_id \in new_ids_set(a) \/ row.target_id \in new_ids_set(a)}

\* node_id of a row: the source when it is a new id, the target otherwise.
node_id_of(a, row) ==
  IF row.source_id \in new_ids_set(a) THEN row.source_id ELSE row.target_id

other_id_of(a, row) ==
  IF row.source_id \in new_ids_set(a) THEN row.target_id ELSE row.source_id
\* Variant of is_relevant: every cached row that touches a new id is kept.
is_relevant_always(a, row) == TRUE

is_relevant(a, row) ==
  other_id_of(a, row) \in existing_ids_set(a) \/ other_id_of(a, row) \in new_ids_set(a)

RelevantRows(a, table) == {row \in cached_results(a, table) : is_relevant(a, row)}

\* combined_edges after the loop over cached_results
ProbeCombined(a, table) ==
  LET rows == RelevantRows(a, table)
      keys == {SortedPair(row.source_id, row.target_id) : row \in rows}
  IN [k \in keys |->
        (CHOOSE row \in rows : SortedPair(row.source_id, row.target_id) = k).score]

\* resolved_nodes after the loop over cached_results
ProbeResolved(a, table) == {node_id_of(a, row) : row \in RelevantRows(a, table)}

----------------------------------------------------------------------------
\* STEP B: Compute Missing

\* get_vectors: the ids that reconstruct, in the order given.
RECURSIVE get_vectors(_)
get_vectors(node_ids) ==
  IF node_ids = <<>> THEN <<>>
  ELSE (IF Head(node_ids) \in reconstructable THEN <<Head(node_ids)>> ELSE <<>>)
       \o get_vectors(Tail(node_ids))

\* np.where(scores > threshold)[0] for the row of source_id
valid_indices(source_id, target_ids, threshold) ==
  {j \in DOMAIN target_ids : CosSim(source_id, target_ids[j]) > threshold}

\* valid_indices[np.argsort(valid_scores)[::-1]]: the valid columns by
\* descending score.  numpy does not fix the order of equal scores, so this is
\* the set of the orders it may give.
RECURSIVE top_indices(_, _, _)
top_indices(source_id, target_ids, valid) ==
  IF valid = {} THEN {<<>>}
  ELSE LET best == {j \in valid : \A k \in valid :
                      CosSim(source_id, target_ids[j]) >= CosSim(source_id, target_ids[k])}
       IN UNION {{<<j>> \o rest : rest \in top_indices(source_id, target_ids, valid \ {j})}
                 : j \in best}

\* The edge a row adds for one column; acc is [combined, to_save].  An entry
\* of to_save also tells the row (the source) that added it (history).
AddEdge(source_id, target_id, acc) ==
  LET edge_key == SortedPair(source_id, target_id)
      score_val == CosSim(source_id, target_id)
  IN IF edge_key \in DOMAIN acc.combined THEN acc
     ELSE [combined |-> DictPut(acc.combined, edge_key, score_val),
           to_save |-> Append(acc.to_save,
                              [source_id |-> edge_key[1], target_id |-> edge_key[2],
                               score |-> score_val, row |-> source_id])]

\* The loop "for idx in top_indices" of one row, from position pos with count.
RECURSIVE extract_row(_, _, _, _, _, _, _)
extract_row(source_id, target_ids, top, pos, count, cap, acc) ==
  IF pos > Len(top) \/ count >= cap THEN acc
  ELSE LET target_id == target_ids[top[pos]]
       IN IF source_id = target_id
          THEN extract_row(source_id, target_ids, top, pos + 1, count, cap, acc)
          ELSE extract_row(source_id, target_ids, top, pos + 1, count + 1, cap,
                           AddEdge(source_id, target_id, acc))

\* extract_edges(source_ids, target_ids, matrix), rows i.. of the matrix, from
\* each of the accumulators accs; the set of the accumulators it may end with.
RECURSIVE extract_edges(_, _, _, _, _, _)
extract_edges(source_ids, target_ids, i, threshold, cap, accs) ==
  IF i > Len(source_ids) THEN accs
  ELSE extract_edges(source_ids, target_ids, i + 1, threshold, cap,
         UNION {{extract_row(source_ids[i], target_ids, top, 1, 0, cap, acc)
                 : top \in top_indices(source_ids[i], target_ids,
                                       valid_indices(source_ids[i], target_ids, threshold))}
                : acc \in accs})

nodes_to_compute(a, resolved) == SetToList(new_ids_set(a) \ resolved)

\* Variant of ShouldCompute without "search_engine.can_reconstruct".
ComputeWithoutCapability(a, resolved) == nodes_to_compute(a, resolved) # <<>>

\* "if search_engine.can_reconstruct and nodes_to_compute"
ShouldCompute(a, resolved) == a.can_reconstruct /\ nodes_to_compute(a, resolved) # <<>>

\* Variant of new_valid: the ids are not dropped when reconstruct raises.
new_valid_unchecked(a, resolved) == nodes_to_compute(a, resolved)

new_valid(a, resolved) == get_vectors(nodes_to_compute(a, resolved))

context_pool(a, resolved) == SetToList(existing_ids_set(a) \cup resolved)

context_valid(a, resolved) == get_vectors(context_pool(a, resolved))

\* "if new_vecs is not None and len(new_valid) > 1"
RunsMissingVsMissing(nv) == Len(nv) > 1

\* Variant of RunsMissingVsContext that never builds the second matrix.
NeverMissingVsContext(nv, cv) == FALSE

\* "if new_vecs is not None and context_vecs is not None"
RunsMissingVsContext(nv, cv) == nv # <<>> /\ cv # <<>>

\* The places of the compute phase where util.cos_sim may raise.
ComputeFaults(a, resolved) ==
  LET nv == new_valid(a, resolved)
      cv == context_valid(a, resolved)
  IN {"none"} \cup (IF RunsMissingVsMissing(nv) THEN {"cos_sim_1"} ELSE {})
              \cup (IF RunsMissingVsContext(nv, cv) THEN {"cos_sim_2"} ELSE {})

\* After "1. Missing vs Missing"
AfterMissingVsMissing(a, nv, accs) ==
  IF RunsMissingVsMissing(nv)
  THEN extract_edges(nv, nv, 1, a.threshold, a.max_edges_per_node, accs)
  ELSE accs

\* After "2. Missing vs Context"
AfterMissingVsContext(a, nv, cv, accs) ==
  IF RunsMissingVsContext(nv, cv)
  THEN extract_edges(nv, cv, 1, a.threshold, a.max_edges_per_node, accs)
  ELSE accs

\* The accumulators [combined, to_save] the compute phase may end with when
\* cos_sim raises at fault ("none": it does not raise).
ComputeOutcomes(a, combined, resolved, fault) ==
  LET nv == new_valid(a, resolved)
      cv == context_valid(a, resolved)
      acc0 == [combined |-> combined, to_save |-> <<>>]
      accs1 == AfterMissingVsMissing(a, nv, {acc0})
  IN CASE fault = "cos_sim_1" -> {acc0}
       [] fault = "cos_sim_2" -> accs1
       [] OTHER -> AfterMissingVsContext(a, nv, cv, accs1)

----------------------------------------------------------------------------
\* STEP D: Resolve Titles

needed_ids(combined) == UNION {{k[1], k[2]} : k \in DOMAIN combined}

ResolveTitles(combined) ==
  {[source |-> Title(k[1]), target |-> Title(k[2]), score |-> combined[k]]
   : k \in {x \in DOMAIN combined : x[1] \in titled /\ x[2] \in titled}}

----------------------------------------------------------------------------
\* The calls.  A request is one call of calculate_global_cross_edges; its
\* steps are cut at the database: STEP A's query (with the local STEP B that
\* follows it), each existence query of STEP C, and the commit (with the local
\* STEP D that follows it).

\* The arguments of a call and what its collaborators do during it:
\* can_reconstruct is search_engine.can_reconstruct, down the collaborators
\* that raise when the call uses them ("cache": the query of STEP A, "commit":
\* db.session.commit(), "titles": cursor.execute of STEP D).
NoArgs ==
  [new_node_ids |-> {}, existing_node_ids |-> {}, threshold |-> DefaultThreshold,
   max_edges_per_node |-> DefaultMaxEdges, user_context |-> NoUser,
   can_reconstruct |-> TRUE, down |-> {}]

Collaborators == {"cache", "commit", "titles"}

\* "if not new_node_ids" (line 13)
EmptyInput(a) == a.new_node_ids = {}

\* Variant of InputGuardOutcome: "raise ValueError" instead of "return []".
InputGuardRaises(a) == "raised"

\* "return []" of line 14: the call is over and has returned.
InputGuardOutcome(a) == "done"

\* STEP A with its "except Exception" (line 50): what the probe leaves in
\* combined_edges and resolved_nodes, and the exception it caught.
StepACombined(a, table) == IF "cache" \in a.down THEN EmptyDict ELSE ProbeCombined(a, table)
StepAResolved(a, table) == IF "cache" \in a.down THEN {} ELSE ProbeResolved(a, table)
StepAFailures(a) == IF "cache" \in a.down THEN {"cache"} ELSE {}

\* STEP D with "if not needed_ids: return []" and its "except Exception"
\* (line 200, "return []"): the returned list, and the exception it caught.
StepD(a, combined) ==
  IF needed_ids(combined) # {} /\ "titles" \in a.down THEN {} ELSE ResolveTitles(combined)
StepDFailures(a, combined) ==
  IF needed_ids(combined) # {} /\ "titles" \in a.down THEN {"titles"} ELSE {}

NoCall == [output |-> {}, failures |-> {}]

\* The state of the locals of request p when it is not in a call.
Cleared(p) ==
  /\ args' = [args EXCEPT ![p] = NoArgs]
  /\ combined_edges' = [combined_edges EXCEPT ![p] = EmptyDict]
  /\ resolved_nodes' = [resolved_nodes EXCEPT ![p] = {}]
  /\ edges_to_save' = [edges_to_save EXCEPT ![p] = <<>>]
  /\ next_edge' = [next_edge EXCEPT ![p] = 1]
  /\ session_new' = [session_new EXCEPT ![p] = {}]
  /\ user_loaded' = [user_loaded EXCEPT ![p] = -1]
  /\ final_output' = [final_output EXCEPT ![p] = {}]
  /\ failures' = [failures EXCEPT ![p] = {}]
  /\ committed' = [committed EXCEPT ![p] = {}]
  /\ is_repeat' = [is_repeat EXCEPT ![p] = FALSE]
  /\ prev_call' = [prev_call EXCEPT ![p] = NoCall]

\* The call goes from STEP B to STEP C with acc, or, with nothing to save or
\* after an exception of STEP B that line 161 catches, through STEP D to its
\* return.
AfterCompute(p, a, acc, fault) ==
  /\ combined_edges' = [combined_edges EXCEPT ![p] = acc.combined]
  /\ edges_to_save' = [edges_to_save EXCEPT ![p] = acc.to_save]
  /\ IF fault = "none" /\ acc.to_save # <<>>
     THEN /\ pc' = [pc EXCEPT ![p] = "persist"]
          /\ failures' = [failures EXCEPT ![p] = StepAFailures(a)]
          /\ final_output' = [final_output EXCEPT ![p] = {}]
     ELSE IF fault = "none" \/ ExceptException(fault)
     THEN /\ pc' = [pc EXCEPT ![p] = "done"]
          /\ failures' = [failures EXCEPT ![p] =
                            StepAFailures(a) \cup StepDFailures(a, acc.combined)
                            \cup (IF fault = "none" THEN {} ELSE {"compute"})]
          /\ final_output' = [final_output EXCEPT ![p] = StepD(a, acc.combined)]
     ELSE /\ pc' = [pc EXCEPT ![p] = "raised"]
          /\ failures' = [failures EXCEPT ![p] = StepAFailures(a) \cup {"compute"}]
          /\ final_output' = [final_output EXCEPT ![p] = {}]

\* calculate_global_cross_edges from its first line to its first write:
\* "if not new_node_ids: return []", the normalization, STEP A and STEP B.
Enter(p, a, repeat) ==
  /\ args' = [args EXCEPT ![p] = a]
  /\ next_edge' = [next_edge EXCEPT ![p] = 1]
  /\ session_new' = [session_new EXCEPT ![p] = {}]
  /\ user_loaded' = [user_loaded EXCEPT ![p] = -1]
  /\ committed' = [committed EXCEPT ![p] = {}]
  /\ is_repeat' = [is_repeat EXCEPT ![p] = repeat]
  /\ prev_call' = [prev_call EXCEPT ![p] =
                     IF repeat THEN [output |-> final_output[p], failures |-> failures[p]]
                     ELSE NoCall]
  /\ IF EmptyInput(a)
     THEN /\ resolved_nodes' = [resolved_nodes EXCEPT ![p] = {}]
          /\ combined_edges' = [combined_edges EXCEPT ![p] = EmptyDict]
          /\ edges_to_save' = [edges_to_save EXCEPT ![p] = <<>>]
          /\ failures' = [failures EXCEPT ![p] = {}]
          /\ final_output' = [final_output EXCEPT ![p] = {}]
          /\ pc' = [pc EXCEPT ![p] = InputGuardOutcome(a)]
     ELSE LET combined == StepACombined(a, Rows)
              resolved == StepAResolved(a, Rows)
          IN /\ resolved_nodes' = [resolved_nodes EXCEPT ![p] = resolved]
             /\ IF ShouldCompute(a, resolved)
                THEN \E fault \in ComputeFaults(a, resolved) :
                     \E acc \in ComputeOutcomes(a, combined, resolved, fault) :
                       AfterCompute(p, a, acc, fault)
                ELSE AfterCompute(p, a, [combined |-> combined, to_save |-> <<>>], "none")
  /\ UNCHANGED <<env, db>>

\* A caller calls connect() with arguments a.
Start(p, a) ==
  /\ pc[p] = "idle"
  /\ Enter(p, a, FALSE)

\* The caller of a call that has returned makes the same call again.
Repeat(p) ==
  /\ pc[p] = "done"
  /\ ~is_repeat[p]
  /\ Enter(p, args[p], TRUE)

\* CachedEdge.query.filter_by(source_id=..., target_id=...).first()
exists(edge_data, table) ==
  \E row \in table :
    row.source_id = edge_data.source_id /\ row.target_id = edge_data.target_id

\* STEP C, one turn of "for edge_data in edges_to_save": the existence query
\* and, for an edge that is not there, db.session.add(new_edge).  Reading
\* user_context.id loads the user's row into the session.
SaveEdge(p) ==
  /\ pc[p] = "persist"
  /\ LET edge_data == edges_to_save[p][next_edge[p]]
         user == args[p].user_context
     IN IF exists(edge_data, Rows)
        THEN UNCHANGED <<session_new, user_loaded>>
        ELSE /\ session_new' = [session_new EXCEPT ![p] =
                  @ \cup {CachedEdge(edge_data.source_id, edge_data.target_id,
                                     edge_data.score, user)}]
             /\ user_loaded' = [user_loaded EXCEPT ![p] =
                  IF user # NoUser /\ @ = -1 THEN edges_discovered[user] ELSE @]
  /\ next_edge' = [next_edge EXCEPT ![p] = @ + 1]
  /\ pc' = [pc EXCEPT ![p] = IF next_edge[p] = Len(edges_to_save[p]) THEN "commit" ELSE "persist"]
  /\ UNCHANGED <<env, db, args, combined_edges, resolved_nodes, edges_to_save,
                 final_output, failures, committed, is_repeat, prev_call>>

\* Variant of ViolatesPrimaryKey: a table without the primary key.
NoPrimaryKey(rows, table) == FALSE

\* The primary key (source_id, target_id) refuses a row whose key is there.
ViolatesPrimaryKey(rows, table) ==
  \E row \in rows : \E old \in table : RowKey(old) = RowKey(row)

\* Variant of InsertRows: the commit leaves only the session's rows.
ReplaceRows(table, rows) == SetToBag(rows)

\* The INSERTs of a commit: the session's rows join the table's.
InsertRows(table, rows) == table (+) SetToBag(rows)

\* "user_context.edges_discovered += edges_added_count": the value the
\* session writes, from the value it loaded.
CounterAfter(loaded, edges_added_count) == loaded + edges_added_count

\* STEP C, "user_context.edges_discovered += edges_added_count" and
\* db.session.commit(), then STEP D.  The commit writes the session's rows and
\* the user's counter in one transaction; the IntegrityError of a refused row
\* is caught by "except Exception" (line 157), and db.session.rollback()
\* drops the whole transaction.
Commit(p) ==
  /\ pc[p] = "commit"
  /\ LET user == args[p].user_context
         edges_added_count == Cardinality(session_new[p])
         raised == IF "commit" \in args[p].down THEN "OperationalError"
                   ELSE IF ViolatesPrimaryKey(session_new[p], Rows) THEN "IntegrityError"
                   ELSE "none"
     IN IF raised # "none"
        THEN /\ pc' = [pc EXCEPT ![p] = IF ExceptException(raised) THEN "done" ELSE "raised"]
             /\ failures' = [failures EXCEPT ![p] =
                   @ \cup {"persist"}
                     \cup (IF ExceptException(raised)
                           THEN StepDFailures(args[p], combined_edges[p]) ELSE {})]
             /\ UNCHANGED <<db, committed>>
        ELSE /\ cached_edges' = InsertRows(cached_edges, session_new[p])
             /\ edges_discovered' =
                  IF user # NoUser /\ edges_added_count > 0
                  THEN [edges_discovered EXCEPT ![user] =
                          CounterAfter(user_loaded[p], edges_added_count)]
                  ELSE edges_discovered
             /\ committed' = [committed EXCEPT ![p] = session_new[p]]
             /\ pc' = [pc EXCEPT ![p] = "done"]
             /\ failures' = [failures EXCEPT ![p] =
                   @ \cup StepDFailures(args[p], combined_edges[p])]
  /\ final_output' = [final_output EXCEPT ![p] =
                        IF pc'[p] = "done" THEN StepD(args[p], combined_edges[p]) ELSE {}]
  /\ UNCHANGED <<env, args, combined_edges, resolved_nodes, edges_to_save, next_edge,
                 session_new, user_loaded, is_repeat, prev_call>>

\* The caller takes the list (or the exception); the request is over.
Return(p) ==
  /\ pc[p] \in {"done", "raised"}
  /\ pc' = [pc EXCEPT ![p] = "idle"]
  /\ Cleared(p)
  /\ UNCHANGED <<env, db>>

----------------------------------------------------------------------------
\* Strings (titles and queries are strings; a string is the sequence of its
\* one-character strings)

UpperLetters == "ABCDEFGHIJKLMNOPQRSTUVWXYZ"
LowerLetters == "abcdefghijklmnopqrstuvwxyz"
Digits == "0123456789"

CharAt(s, i) == SubSeq(s, i, i)

LowerChar(c) ==
  IF \E i \in 1..Len(UpperLetters) : CharAt(UpperLetters, i) = c
  THEN LET i == CHOOSE i \in 1..Len(UpperLetters) : CharAt(UpperLetters, i) = c
       IN  CharAt(LowerLetters, i)
  ELSE c

\* str.lower()
RECURSIVE lower(_)
lower(s) == IF s = "" THEN "" ELSE LowerChar(CharAt(s, 1)) \o lower(SubSeq(s, 2, Len(s)))

\* str.replace(old, new), old one character
RECURSIVE replace(_, _, _)
replace(s, old, new) ==
  IF s = "" THEN ""
  ELSE (IF CharAt(s, 1) = old THEN new ELSE CharAt(s, 1))
       \o replace(SubSeq(s, 2, Len(s)), old, new)

\* str.startswith(p)
startswith(s, p) == Len(p) <= Len(s) /\ SubSeq(s, 1, Len(p)) = p

\* sub in s
contains(s, sub) ==
  \E i \in 1..(Len(s) - Len(sub) + 1) : SubSeq(s, i, i + Len(sub) - 1) = sub

\* set(s.split()): the maximal runs of s without a space
words(s) ==
  {SubSeq(s, w[1], w[2]) : w \in {w \in (1..Len(s)) \X (1..Len(s)) :
       /\ w[1] <= w[2]
       /\ \A n \in w[1]..w[2] : CharAt(s, n) # " "
       /\ (w[1] = 1 \/ CharAt(s, w[1] - 1) = " ")
       /\ (w[2] = Len(s) \/ CharAt(s, w[2] + 1) = " ")}}

\* s.split(sep): the parts of s between the occurrences of sep, found from
\* the left
RECURSIVE split(_, _)
split(s, sep) ==
  IF contains(s, sep)
  THEN LET i == CHOOSE i \in 1..(Len(s) - Len(sep) + 1) :
                  /\ SubSeq(s, i, i + Len(sep) - 1) = sep
                  /\ \A j \in 1..(i - 1) : SubSeq(s, j, j + Len(sep) - 1) # sep
       IN  <<SubSeq(s, 1, i - 1)>> \o split(SubSeq(s, i + Len(sep), Len(s)), sep)
  ELSE <<s>>

----------------------------------------------------------------------------
\* backend/core/ranking.py.  A float is an integer number of units of 1e-8
\* (1.0 is Unit, config.EPSILON is 1).  A power x ** w is kept as its
\* logarithm: Log10(x) is log10 of x in thousandths, from the table of the
\* logarithms of 1 to 10 and linear in between, so the weighted geometric mean is a
\* weighted sum, in units of 1e-5, and a score is in [0, 1] when its logarithm
\* is at most 0.

RECURSIVE Pow10(_)
Pow10(n) == IF n = 0 THEN 1 ELSE 10 * Pow10(n - 1)

Unit == Pow10(8)

\* config.EPSILON and the weights (in hundredths)
EPSILON == 1
WEIGHT_SEMANTIC == 30
WEIGHT_PAGERANK == 50
WEIGHT_PAGEVIEWS == 15
WEIGHT_TITLE_MATCH == 5

\* None, of a column of articles that is NULL
None == 0 - Pow10(9)

MantissaLogs == <<0, 301, 477, 602, 699, 778, 845, 903, 954, 1000>>

\* log10 of x units, in thousandths, for 1 <= x < 10 * Unit
Log10(x) ==
  LET d == CHOOSE d \in 0..8 : Pow10(d) <= x /\ x < Pow10(d + 1)
      m == x \div Pow10(d)
      rest == x - m * Pow10(d)
      rise == MantissaLogs[m + 1] - MantissaLogs[m]
      part == IF d >= 3
              THEN ((rest \div Pow10(d - 3)) * rise) \div 1000
              ELSE (rest * rise) \div Pow10(d)
  IN  (d - 8) * 1000 + MantissaLogs[m] + part

normalize_pagerank(pagerank_score) ==
  IF pagerank_score = None \/ pagerank_score <= 0 THEN 0
  ELSE pagerank_score * (Unit \div 100)

normalize_pageviews(pageview_count) ==
  IF pageview_count = None \/ pageview_count < 1 THEN 0
  ELSE IF pageview_count < 100 THEN Unit \div 10
  ELSE LET min_log == 2000
           max_log == 7000
           log_val == Log10(pageview_count) + 8000
           score == (log_val - min_log) * (Unit \div (max_log - min_log))
       IN  Min(Unit, Max(0, score))

place_indicators ==
  {"africa", "asia", "europe", "america", "states", "kingdom",
   "china", "india", "russia", "france", "germany", "japan",
   "canada", "australia", "brazil", "mexico", "italy", "spain",
   "california", "texas", "york", "london", "paris", "tokyo"}

meta_prefixes ==
  {"list of", "index of", "glossary of", "timeline of",
   "outline of", "history of", "bibliography of"}

\* base_score is kept as the fraction <<numerator, denominator>> until the
\* function returns.
Times(f, n, d) == <<f[1] * n, f[2] * d>>

calculate_title_match_score(title, query) ==
  LET title_lower == replace(lower(title), "_", " ")
      query_lower == lower(query)
      title_words == words(title_lower)
      query_words == words(query_lower)
      intersection == Cardinality(title_words \cap query_words)
      union == Cardinality(title_words \cup query_words)
      base_score == <<intersection, union>>
      boosted == IF startswith(title_lower, query_lower) \/ contains(title_lower, query_lower)
                 THEN (IF 3 * intersection >= 2 * union THEN <<1, 1>>
                       ELSE Times(base_score, 3, 2))
                 ELSE base_score
      parts == split(title_lower, " in ")
      placed == IF contains(title_lower, " in ") /\ Len(parts) = 2
                   /\ \E place \in place_indicators : contains(parts[2], place)
                THEN Times(boosted, 1, 2)
                ELSE boosted
      dated == IF Len(title_lower) >= 4
                  /\ \A i \in 1..4 : contains(Digits, CharAt(title_lower, i))
               THEN Times(placed, 2, 5)
               ELSE placed
      listed == IF \E prefix \in meta_prefixes : startswith(title_lower, prefix)
                THEN Times(dated, 1, 10)
                ELSE dated
  IN  IF title_words = {} THEN 0
      ELSE IF union = 0 THEN 0
      ELSE IF title_lower = query_lower THEN Unit
      ELSE Min(Unit, Max(0, (listed[1] * (Unit \div listed[2]))
                            + (listed[1] * (Unit % listed[2])) \div listed[2]))

bad_prefixes ==
  {"wikipedia:", "template:", "category:", "portal:", "help:",
   "user:", "talk:", "file:", "mediawiki:", "draft:"}

\* Variant of is_meta_page: the prefixes are compared with the title as written.
is_meta_page_as_written(title) ==
  \/ \E p \in bad_prefixes : startswith(title, p)
  \/ contains(title, "(disambiguation)")

is_meta_page(title) ==
  LET lower_title == lower(title)
  IN  \/ \E p \in bad_prefixes : startswith(lower_title, p)
      \/ contains(lower_title, "(disambiguation)")

\* Variant of ObscurityPenalty: the penalty falls on the popular articles.
PopularityPenalty(pv_norm, pr_norm) == pv_norm >= Unit \div 5 /\ pr_norm >= Unit \div 10

\* "if pv_norm < 0.2 and pr_norm < 0.1"
ObscurityPenalty(pv_norm, pr_norm) == pv_norm < Unit \div 5 /\ pr_norm < Unit \div 10

\* Lines 90 to 109 of calculate_multisignal_score, on the normalized signals:
\* the logarithm of the score, in units of 1e-5.
Fuse(sem, pr, pv, title) ==
  LET sem_norm == Max(sem, EPSILON)
      pr_norm == Max(pr, EPSILON)
      pv_norm == Max(pv, EPSILON)
      title_norm == Max(title, EPSILON)
      score == WEIGHT_SEMANTIC * Log10(sem_norm) + WEIGHT_PAGERANK * Log10(pr_norm)
               + WEIGHT_PAGEVIEWS * Log10(pv_norm) + WEIGHT_TITLE_MATCH * Log10(title_norm)
  IN  IF ObscurityPenalty(pv_norm, pr_norm)
      THEN score + 100 * Log10(Unit \div 2)
      ELSE score

\* The normalized signals of lines 85 to 88.
Signals(semantic_similarity, pagerank_score, pageview_count, title, query) ==
  [sem |-> semantic_similarity,
   pr |-> normalize_pagerank(pagerank_score),
   pv |-> normalize_pageviews(pageview_count),
   title |-> calculate_title_match_score(title, query)]

calculate_multisignal_score(semantic_similarity, pagerank_score, pageview_count, title, query) ==
  LET n == Signals(semantic_similarity, pagerank_score, pageview_count, title, query)
  IN  Fuse(n.sem, n.pr, n.pv, n.title)

----------------------------------------------------------------------------
\* backend/routes/search_routes.py, get_related (POST /related).  A row of
\* articles is [title, lookup_title, pagerank, pageviews]; titles are unique.
\* A hit of index.search is [id, distance], id -1 where the index has no
\* neighbour.  In the default ranking score_float is the logarithm of the
\* fused score (Fuse), in semantic_only it is the raw similarity; one request
\* ranks in one mode, so the order of its scores is the order of the floats.

RESULTS_TO_RETURN == 60
MaxResults == 100
SimilarityThreshold == 62

\* index.search: the ids from the nearest on, then the padding -1.
RECURSIVE nearest(_, _)
nearest(distance, ids) ==
  IF ids = {} THEN <<>>
  ELSE LET best == CHOOSE i \in ids :
                     \A j \in ids : distance[i] > distance[j]
                                     \/ (distance[i] = distance[j] /\ i <= j)
       IN  <<[id |-> best, distance |-> distance[best]]>> \o nearest(distance, ids \ {best})

search(distance) == nearest(distance, DOMAIN distance) \o <<[id |-> 0 - 1, distance |-> 0 - Unit]>>

\* "k_results = int(data.get('k', RESULTS_TO_RETURN)); k_results = min(k_results, 100)"
k_results(k) == Min(k, MaxResults)

\* The lookup strategies of the exclusion id: the first strategy that finds a
\* row gives its article_id, without a row exclude_id stays None.
exclude_id(query, rows) ==
  LET by_title(t) == {id \in DOMAIN rows : rows[id].title = t}
      by_lookup(t) == {id \in DOMAIN rows : rows[id].lookup_title = t}
      first == by_title(query)
      second == by_title(replace(query, "_", " "))
      third == by_lookup(lower(query))
  IN  IF first # {} THEN CHOOSE id \in first : TRUE
      ELSE IF second # {} THEN CHOOSE id \in second : TRUE
      ELSE IF third # {} THEN CHOOSE id \in third : TRUE
      ELSE None

\* "if idx_int >= 0 and idx_int != exclude_id": candidate_ids with their
\* semantic_scores
Candidate(hit, excluded) == hit.id >= 0 /\ hit.id # excluded

candidates(hits, excluded) == SelectSeq(hits, LAMBDA hit : Candidate(hit, excluded))

\* "if not row_data or is_meta_page(row_data['title']): continue"
Skipped(cand, rows) == cand.id \notin DOMAIN rows \/ is_meta_page(rows[cand.id].title)

\* The dict result of one candidate.
Result(cand, query, ranking, rows) ==
  LET row_data == rows[cand.id]
      final_score == IF ranking = "semantic_only" THEN cand.distance
                     ELSE calculate_multisignal_score(cand.distance, row_data.pagerank,
                            row_data.pageviews, row_data.title, query)
  IN  [id |-> cand.id, title |-> replace(row_data.title, " ", "_"),
       score_float |-> final_score]

\* The loop over candidate_ids.
RECURSIVE Scored(_, _, _, _)
Scored(cands, query, ranking, rows) ==
  IF cands = <<>> THEN <<>>
  ELSE IF Skipped(Head(cands), rows) THEN Scored(Tail(cands), query, ranking, rows)
  ELSE <<Result(Head(cands), query, ranking, rows)>>
       \o Scored(Tail(cands), query, ranking, rows)

\* results.sort(key=score_float, reverse=True): stable, results of one score
\* keep their order.
RECURSIVE SortDescending(_)
SortDescending(list) ==
  IF list = <<>> THEN <<>>
  ELSE LET last == list[Len(list)]
           sorted == SortDescending(SubSeq(list, 1, Len(list) - 1))
           ahead == Cardinality({i \in DOMAIN sorted : sorted[i].score_float >= last.score_float})
       IN  SubSeq(sorted, 1, ahead) \o <<last>> \o SubSeq(sorted, ahead + 1, Len(sorted))

\* list[:k]
Slice(list, k) ==
  IF k >= 0 THEN SubSeq(list, 1, Min(k, Len(list)))
  ELSE SubSeq(list, 1, Max(0, Len(list) + k))

\* results after the sort, for a request whose collaborators answer.
SortedResults(r, rows) ==
  SortDescending(Scored(candidates(r.hits, exclude_id(r.query, rows)), r.query, r.ranking, rows))

TopResults(r, rows) == Slice(SortedResults(r, rows), k_results(r.k))

\* final_results: the dicts without id and score_float.
FinalResults(top) == [i \in DOMAIN top |-> top[i].title]

\* The collaborators of get_related that may raise during a request:
\* get_or_create_user and its commit ("session"), the metadata cursor
\* ("metadata"), model.encode ("encode"), index.search ("search"), the context
\* lookup ("context"), the analytics writes ("analytics"), and the three of
\* calculate_global_cross_edges.
RankingCollaborators == {"session", "metadata", "encode", "search"}
RequestCollaborators == RankingCollaborators \cup {"context", "analytics"} \cup Collaborators

\* Lines 60 to 134: what the request answers before it ranks, 0 when it goes on.
EarlyStatus(r, rows) ==
  IF "session" \in r.down THEN 500
  ELSE IF r.query = "" THEN 400
  ELSE IF "metadata" \in r.down THEN 500
  ELSE IF "encode" \in r.down THEN 500
  ELSE IF "search" \in r.down THEN 500
  ELSE IF candidates(r.hits, exclude_id(r.query, rows)) = <<>> THEN 200
  ELSE 0

CurrentUser == CHOOSE u \in Users : TRUE

\* get_related from its first line to the slice of top_results (line 193).
Rank(r) ==
  /\ rpc = "none"
  /\ req' = r
  /\ cross_edges' = {}
  /\ IF EarlyStatus(r, articles) # 0
     THEN /\ rpc' = "responded"
          /\ results' = <<>>
          /\ top_results' = <<>>
          /\ response' = [status |-> EarlyStatus(r, articles), results |-> <<>>,
                          cross_edges |-> {}]
     ELSE /\ rpc' = "ranked"
          /\ results' = SortedResults(r, articles)
          /\ top_results' = TopResults(r, articles)
          /\ response' = response
  /\ UNCHANGED <<env, db, locals, articles, total_searches, public_searches, scored, analytics>>

new_result_ids(top) == {top[i].id : i \in DOMAIN top}

\* "if search_engine.can_reconstruct and len(new_result_ids) > 0"
WantsConnectivity(r, top) == r.can_reconstruct /\ new_result_ids(top) # {}

\* The request has no cross edges to compute.
SkipConnect ==
  /\ rpc = "ranked"
  /\ ~WantsConnectivity(req, top_results)
  /\ rpc' = "analytics"
  /\ UNCHANGED <<env, db, locals, articles, total_searches, public_searches, req,
                 results, top_results, cross_edges, response, scored, analytics>>

\* Variant of ExceptConnectivity: the handler of line 232 lets the exception go.
ExceptNothing(exc) == FALSE

\* "except Exception as e" of line 232
ExceptConnectivity(exc) == TRUE

\* What the request does with an exception of the connectivity block.
AfterConnectivityError(exc) ==
  IF ExceptConnectivity(exc)
  THEN /\ rpc' = "analytics"
       /\ response' = response
  ELSE /\ rpc' = "responded"
       /\ response' = [status |-> 500, results |-> <<>>, cross_edges |-> {}]

\* The context lookup raises.
ContextFails ==
  /\ rpc = "ranked"
  /\ WantsConnectivity(req, top_results)
  /\ "context" \in req.down
  /\ AfterConnectivityError("OperationalError")
  /\ UNCHANGED <<env, db, locals, articles, total_searches, public_searches, req,
                 results, top_results, cross_edges, scored, analytics>>

\* str.isdigit(), for the ASCII digits
isdigit(s) == s # "" /\ \A i \in 1..Len(s) : contains(Digits, CharAt(s, i))

\* int(s) of a string of digits
RECURSIVE int(_)
int(s) ==
  IF s = "" THEN 0
  ELSE 10 * int(SubSeq(s, 1, Len(s) - 1))
       + (CHOOSE d \in 0..9 : CharAt(Digits, d + 1) = CharAt(s, Len(s)))

\* existing_ids_final: the integers of context, the strings of context that
\* are made of digits, read as integers, and the article_id of the rows whose
\* lookup_title is one of the other strings of context, lower-cased and with
\* spaces for underscores.
existing_ids_final(r, rows) ==
  r.context.ids
  \cup {int(ctx_id) : ctx_id \in {s \in r.context.titles : isdigit(s)}}
  \cup {id \in DOMAIN rows :
          \E ctx_id \in r.context.titles :
            ~isdigit(ctx_id) /\ rows[id].lookup_title = lower(replace(ctx_id, "_", " "))}

ConnectArgs(r, top, rows) ==
  [new_node_ids |-> new_result_ids(top), existing_node_ids |-> existing_ids_final(r, rows),
   threshold |-> SimilarityThreshold, max_edges_per_node |-> DefaultMaxEdges,
   user_context |-> CurrentUser, can_reconstruct |-> r.can_reconstruct,
   down |-> r.down \cap Collaborators]

\* Context resolution and the call of calculate_global_cross_edges.
CallConnect ==
  /\ rpc = "ranked"
  /\ WantsConnectivity(req, top_results)
  /\ "context" \notin req.down
  /\ Start(1, ConnectArgs(req, top_results, articles))
  /\ rpc' = "connecting"
  /\ UNCHANGED <<articles, total_searches, public_searches, req, results, top_results,
                 cross_edges, response, scored, analytics>>

\* calculate_global_cross_edges returns its list, or raises.
ConnectReturns ==
  /\ rpc = "connecting"
  /\ IF pc[1] = "done"
     THEN /\ cross_edges' = final_output[1]
          /\ rpc' = "analytics"
          /\ response' = response
     ELSE /\ cross_edges' = cross_edges
          /\ AfterConnectivityError("Exception")
  /\ Return(1)
  /\ UNCHANGED <<articles, total_searches, public_searches, req, results, top_results,
                 scored, analytics>>

\* The analytics block and the answer (lines 238 to 296).  A failure of the
\* analytics writes is caught and rolled back.
Respond ==
  /\ rpc = "analytics"
  /\ IF ~req.private /\ "analytics" \notin req.down
     THEN /\ total_searches' = [total_searches EXCEPT ![CurrentUser] = @ + 1]
          /\ public_searches' =
               DictPut(public_searches, req.query,
                       IF req.query \in DOMAIN public_searches
                       THEN public_searches[req.query] + 1 ELSE 1)
     ELSE UNCHANGED <<total_searches, public_searches>>
  /\ response' = [status |-> 200, results |-> FinalResults(top_results),
                  cross_edges |-> cross_edges]
  /\ rpc' = "responded"
  /\ UNCHANGED <<env, db, locals, articles, req, results, top_results, cross_edges, scored, analytics>>

----------------------------------------------------------------------------
\* The analytics block of get_related (lines 238 to 286) under concurrent
\* requests.  PostgreSQL runs each session at READ COMMITTED; the session
\* autoflushes before a query, and the flushed UPDATE of the user's row holds
\* the row's lock until the session commits or rolls back.

\* The identities (ip and user agent) the concurrent requests come from.
Visitors == {"u1", "u2"}

\* The query string the concurrent requests share.
SharedQuery == "graph theory"

NoAnalytics ==
  [p \in AllRequests |->
     [pc |-> "idle", user |-> NoUser, total_searches |-> 0, existing |-> None,
      recovering |-> FALSE]]

\* "current_user.total_searches += 1" (line 242): the session loads the
\* user's row and holds the new value, unflushed.
CountSearch(p, user) ==
  /\ analytics[p].pc = "idle"
  /\ analytics' = [analytics EXCEPT ![p] =
                     [@ EXCEPT !.pc = "counted", !.user = user,
                               !.total_searches = total_searches[user] + 1]]
  /\ UNCHANGED <<env, db, locals, web, scored>>

\* PublicSearch.query.filter_by(search_query=query).first() (lines 245 and
\* 278): the autoflush writes the user's row, waiting for the session that
\* holds its lock, then the query reads the committed row of the query
\* string (None: no row).
QueryExisting(p) ==
  /\ analytics[p].pc = "counted"
  /\ \A q \in AllRequests \ {p} :
       ~(analytics[q].pc = "queried" /\ analytics[q].user = analytics[p].user)
  /\ analytics' = [analytics EXCEPT ![p] =
                     [@ EXCEPT !.pc = "queried",
                               !.existing = IF SharedQuery \in DOMAIN public_searches
                                            THEN public_searches[SharedQuery]
                                            ELSE None]]
  /\ UNCHANGED <<env, db, locals, web, scored>>

\* unique=True of PublicSearch.search_query: the INSERT of a second row for
\* a query string raises IntegrityError.
ViolatesUnique(table) == SharedQuery \in DOMAIN table

\* The rest of the try block and db.session.commit() (lines 247 to 265), or
\* of the IntegrityError handler (lines 279 to 282): "existing.search_count
\* += 1" writes the count the session read plus one; the optimistic insert
\* writes a row with search_count 1, or is rolled back with the user's row
\* when the row is there by now; the handler commits nothing when it finds no
\* row.
CommitSearch(p) ==
  LET a == analytics[p]
      done == [analytics EXCEPT ![p] = [@ EXCEPT !.pc = "done"]]
      commit_user == [total_searches EXCEPT ![a.user] = a.total_searches]
  IN /\ a.pc = "queried"
     /\ IF a.existing # None
        THEN /\ public_searches' = DictPut(public_searches, SharedQuery, a.existing + 1)
             /\ total_searches' = commit_user
             /\ analytics' = done
        ELSE IF a.recovering
        THEN /\ analytics' = done
             /\ UNCHANGED <<public_searches, total_searches>>
        ELSE IF ViolatesUnique(public_searches)
        THEN /\ analytics' = [analytics EXCEPT ![p] = [@ EXCEPT !.pc = "rolled back"]]
             /\ UNCHANGED <<public_searches, total_searches>>
        ELSE /\ public_searches' = DictPut(public_searches, SharedQuery, 1)
             /\ total_searches' = commit_user
             /\ analytics' = done
     /\ UNCHANGED <<env, db, locals, articles, req, rpc, results, top_results,
                    cross_edges, response, scored>>

\* "except IntegrityError" (lines 267 to 276): after the rollback the handler
\* fetches the user again and counts the search on the row it loads.
RecountSearch(p) ==
  /\ analytics[p].pc = "rolled back"
  /\ analytics' = [analytics EXCEPT ![p] =
                     [@ EXCEPT !.pc = "counted", !.recovering = TRUE,
                               !.total_searches = total_searches[analytics[p].user] + 1]]
  /\ UNCHANGED <<env, db, locals, web, scored>>

----------------------------------------------------------------------------
\* The specifications

\* No /related request and no call of the ranker.
NoRequest ==
  [query |-> "", k |-> 0, ranking |-> "default", context |-> [ids |-> {}, titles |-> {}],
   private |-> FALSE,
   hits |-> <<>>, can_reconstruct |-> TRUE, down |-> {}]
NoResponse == [status |-> 0, results |-> <<>>, cross_edges |-> {}]
NoScore ==
  [semantic_similarity |-> 0, pagerank_score |-> 0, pageview_count |-> 0,
   title |-> "", query |-> "", returned |-> FALSE, score |-> 0]

NoRelated ==
  /\ articles = EmptyDict
  /\ total_searches = [u \in Users |-> 0]
  /\ public_searches = EmptyDict
  /\ req = NoRequest
  /\ rpc = "none"
  /\ results = <<>>
  /\ top_results = <<>>
  /\ cross_edges = {}
  /\ response = NoResponse

InitRequests ==
  /\ pc = [p \in AllRequests |-> "idle"]
  /\ args = [p \in AllRequests |-> NoArgs]
  /\ combined_edges = [p \in AllRequests |-> EmptyDict]
  /\ resolved_nodes = [p \in AllRequests |-> {}]
  /\ edges_to_save = [p \in AllRequests |-> <<>>]
  /\ next_edge = [p \in AllRequests |-> 1]
  /\ session_new = [p \in AllRequests |-> {}]
  /\ user_loaded = [p \in AllRequests |-> -1]
  /\ final_output = [p \in AllRequests |-> {}]
  /\ failures = [p \in AllRequests |-> {}]
  /\ committed = [p \in AllRequests |-> {}]
  /\ is_repeat = [p \in AllRequests |-> FALSE]
  /\ prev_call = [p \in AllRequests |-> NoCall]

InitDb ==
  /\ cached_edges = EmptyBag
  /\ edges_discovered = [u \in Users |-> 0]

\* The calls one caller makes one after the other: every new and existing
\* set, both thresholds and caps, with and without reconstruction (then with
\* the default threshold and cap, which the call does not read).
SeqArgs ==
  {a \in [new_node_ids : SUBSET Ids, existing_node_ids : SUBSET Ids,
          threshold : Thresholds, max_edges_per_node : Caps,
          user_context : {NoUser}, can_reconstruct : BOOLEAN, down : {{}}] :
     ~a.can_reconstruct =>
        a.threshold = DefaultThreshold /\ a.max_edges_per_node = DefaultMaxEdges}

\* One caller, over the corpora: every similarity of two articles; article 2
\* may be one the index cannot reconstruct, article 1 one without a metadata
\* row.
InitSeq ==
  /\ cos \in [Pairs -> ScoreLevels]
  /\ reconstructable \in {Ids, Ids \ {2}}
  /\ titled \in {Ids, Ids \ {1}}
  /\ InitDb
  /\ InitRequests
  /\ NoRelated
  /\ scored = NoScore
  /\ analytics = NoAnalytics

NextSeq ==
  \/ (\E a \in SeqArgs : Start(1, a)) /\ UNCHANGED <<web, scored, analytics>>
  \/ Repeat(1) /\ UNCHANGED <<web, scored, analytics>>
  \/ SaveEdge(1) /\ UNCHANGED <<web, scored, analytics>>
  \/ Commit(1) /\ UNCHANGED <<web, scored, analytics>>
  \/ Return(1) /\ UNCHANGED <<web, scored, analytics>>

SpecSeq == InitSeq /\ [][NextSeq]_vars

\* The calls of concurrent requests, as get_related makes them (threshold
\* 0.62, the default cap, an index that reconstructs, the requests' user): the
\* context is empty or the rest of the corpus.
ConcArgs ==
  {a \in [new_node_ids : SUBSET Ids \ {{}}, existing_node_ids : SUBSET Ids,
          threshold : {DefaultThreshold}, max_edges_per_node : {DefaultMaxEdges},
          user_context : Users, can_reconstruct : {TRUE}, down : {{}}] :
     a.existing_node_ids \in {{}, Ids \ a.new_node_ids}}

\* Concurrent requests over a corpus of similar articles (every pair is above
\* the threshold); article 1 may be one without a metadata row.
Init ==
  /\ cos = [k \in Pairs |-> 80]
  /\ reconstructable = Ids
  /\ titled \in {Ids, Ids \ {1}}
  /\ InitDb
  /\ InitRequests
  /\ NoRelated
  /\ scored = NoScore
  /\ analytics = NoAnalytics

Next ==
  \E p \in Requests :
    \/ (\E a \in ConcArgs : Start(p, a)) /\ UNCHANGED <<web, scored, analytics>>
    \/ SaveEdge(p) /\ UNCHANGED <<web, scored, analytics>>
    \/ Commit(p) /\ UNCHANGED <<web, scored, analytics>>
    \/ Return(p) /\ UNCHANGED <<web, scored, analytics>>

Spec == Init /\ [][Next]_vars

\* One request more in the race, each with the two largest new sets and no
\* context.
RaceArgs ==
  {a \in ConcArgs : a.existing_node_ids = {} /\ Cardinality(a.new_node_ids) >= NumIds - 1
                    /\ 1 \in a.new_node_ids /\ 2 \in a.new_node_ids}

Next3 ==
  \E p \in AllRequests :
    \/ (\E a \in RaceArgs : Start(p, a)) /\ UNCHANGED <<web, scored, analytics>>
    \/ SaveEdge(p) /\ UNCHANGED <<web, scored, analytics>>
    \/ Commit(p) /\ UNCHANGED <<web, scored, analytics>>
    \/ Return(p) /\ UNCHANGED <<web, scored, analytics>>

Spec3 == Init /\ [][Next3]_vars

\* One caller whose collaborators may fail: in each call any of the cache
\* query, the commit and the title lookup may raise, cos_sim may raise, and
\* article 2 may be one the index cannot reconstruct.
FaultArgs ==
  {a \in [new_node_ids : SUBSET Ids \ {{}}, existing_node_ids : SUBSET Ids,
          threshold : {DefaultThreshold}, max_edges_per_node : {DefaultMaxEdges},
          user_context : Users, can_reconstruct : BOOLEAN,
          down : SUBSET Collaborators] :
     a.existing_node_ids \in {{}, Ids \ a.new_node_ids}}

InitFaults ==
  /\ cos = [k \in Pairs |-> 80]
  /\ reconstructable \in {Ids, Ids \ {2}}
  /\ titled = Ids
  /\ InitDb
  /\ InitRequests
  /\ NoRelated
  /\ scored = NoScore
  /\ analytics = NoAnalytics

NextFaults ==
  \/ (\E a \in FaultArgs : Start(1, a)) /\ UNCHANGED <<web, scored, analytics>>
  \/ SaveEdge(1) /\ UNCHANGED <<web, scored, analytics>>
  \/ Commit(1) /\ UNCHANGED <<web, scored, analytics>>
  \/ Return(1) /\ UNCHANGED <<web, scored, analytics>>

\* A call that has begun is run to its end: the function is straight-line
\* code and a finite loop, and the database answers or raises.
SpecFaults ==
  /\ InitFaults /\ [][NextFaults]_vars
  /\ WF_vars(SaveEdge(1) /\ UNCHANGED <<web, scored, analytics>>)
  /\ WF_vars(Commit(1) /\ UNCHANGED <<web, scored, analytics>>)

\* The ranker alone: calculate_multisignal_score over raw similarities (an
\* inner product may be negative), pagerank and pageviews columns (NULL, 0,
\* small and large values) and pairs of a title and a query.
Similarities == {0 - Unit \div 2, 0, Unit \div 2, Unit}
Pageranks == {None, 0, 5, 10, 50, 100, 400}
Pageviews == {None, 0, 1, 50, 99, 100, 1000, Pow10(7), Pow10(8)}
TitleQueries ==
  {<<"Graph theory", "graph theory">>, <<"Graph theory", "graph">>,
   <<"List of graphs", "graphs">>, <<"Knot", "graph">>, <<"", "graph">>}

InitScore ==
  /\ cos = [k \in Pairs |-> 80]
  /\ reconstructable = Ids
  /\ titled = Ids
  /\ InitDb
  /\ InitRequests
  /\ NoRelated
  /\ analytics = NoAnalytics
  /\ \E sem \in Similarities, pr \in Pageranks, pv \in Pageviews, tq \in TitleQueries :
       scored = [semantic_similarity |-> sem, pagerank_score |-> pr, pageview_count |-> pv,
                 title |-> tq[1], query |-> tq[2], returned |-> FALSE, score |-> 0]

Score ==
  /\ ~scored.returned
  /\ scored' = [scored EXCEPT
                  !.returned = TRUE,
                  !.score = calculate_multisignal_score(scored.semantic_similarity,
                              scored.pagerank_score, scored.pageview_count,
                              scored.title, scored.query)]
  /\ UNCHANGED <<env, db, locals, web, analytics>>

NextScore == Score

SpecScore == InitScore /\ [][NextScore]_vars

\* The ranker of /related alone (the index cannot reconstruct, so no cross
\* edges are asked for): a corpus with the article of the query, ordinary
\* articles, meta pages written in both cases and a disambiguation page; the
\* index also answers with article 7, which has no row.
Row(title, pagerank, pageviews) ==
  [title |-> title, lookup_title |-> lower(title), pagerank |-> pagerank,
   pageviews |-> pageviews]

RankCorpus ==
  <<Row("Graph theory", 40, 5000), Row("Eulerian path", 40, 5000),
    Row("Category:Mathematics", 50, 1000), Row("Graph (disambiguation)", 10, 100),
    Row("Knot theory", 5, 50), Row("TEMPLATE:Graph", 10, None)>>

RankDistances ==
  {[id \in 1..7 |-> CASE id = 1 -> d[1] [] id = 2 -> d[2] [] id = 5 -> d[3]
                      [] id = 3 -> (17 * Unit) \div 20 [] id = 4 -> (7 * Unit) \div 10
                      [] id = 6 -> (3 * Unit) \div 5 [] OTHER -> (9 * Unit) \div 10] :
     d \in [1..3 -> {Unit \div 2, (4 * Unit) \div 5}]}

RankQueries == {"", "Graph Theory", "graph_theory", "Graph_theory", "Eulerian path", "knot"}
Ks == {0 - 1, 0, 1, 2, RESULTS_TO_RETURN, 200}
NoContext == [ids |-> {}, titles |-> {}]

RankRequests ==
  [query : RankQueries, k : Ks, ranking : {"default", "semantic_only"},
   context : {NoContext}, private : {FALSE}, hits : {search(d) : d \in RankDistances},
   can_reconstruct : {FALSE}, down : {{}}]

InitRank ==
  /\ cos = [k \in Pairs |-> 80]
  /\ reconstructable = Ids
  /\ titled = Ids
  /\ InitDb
  /\ InitRequests
  /\ articles = RankCorpus
  /\ total_searches = [u \in Users |-> 0]
  /\ public_searches = EmptyDict
  /\ req = NoRequest
  /\ rpc = "none"
  /\ results = <<>>
  /\ top_results = <<>>
  /\ cross_edges = {}
  /\ response = NoResponse
  /\ scored = NoScore
  /\ analytics = NoAnalytics

NextRank ==
  \/ \E r \in RankRequests : Rank(r)
  \/ SkipConnect
  \/ Respond

SpecRank == InitRank /\ [][NextRank]_vars

\* One /related request with its connectivity, over a corpus of similar
\* articles (every pair is above the threshold) and a cache that is empty or
\* holds the edge of articles 1 and 2; up to two collaborators of the
\* request are down.
Names == <<"Graph theory", "Eulerian path", "1984", "Tree", "Matroid">>
RelatedCorpus == [id \in Ids |-> Row(Names[id], 40, 5000)]
RelatedDistances == [id \in 1..(NumIds + 1) |-> ((9 - id) * Unit) \div 10]

RelatedRequests ==
  [query : {"Graph theory", "trees"}, k : {1, RESULTS_TO_RETURN}, ranking : {"default"},
   context : {NoContext, [ids |-> {1}, titles |-> {}], [ids |-> {}, titles |-> {"Eulerian_path"}],
              [ids |-> {}, titles |-> {"2"}]},
   private : BOOLEAN, hits : {search(RelatedDistances)}, can_reconstruct : BOOLEAN,
   down : {d \in SUBSET RequestCollaborators : Cardinality(d) <= 2}]

InitRelated ==
  /\ cos = [k \in Pairs |-> 80]
  /\ reconstructable = Ids
  /\ titled = Ids
  /\ cached_edges \in {EmptyBag, SetToBag({CachedEdge(1, 2, 80, NoUser)})}
  /\ edges_discovered = [u \in Users |-> 0]
  /\ InitRequests
  /\ articles = RelatedCorpus
  /\ total_searches = [u \in Users |-> 0]
  /\ public_searches = EmptyDict
  /\ req = NoRequest
  /\ rpc = "none"
  /\ results = <<>>
  /\ top_results = <<>>
  /\ cross_edges = {}
  /\ response = NoResponse
  /\ scored = NoScore
  /\ analytics = NoAnalytics

NextRelated ==
  \/ \E r \in RelatedRequests : Rank(r)
  \/ SkipConnect
  \/ ContextFails
  \/ CallConnect
  \/ SaveEdge(1) /\ rpc = "connecting" /\ UNCHANGED <<web, scored, analytics>>
  \/ Commit(1) /\ rpc = "connecting" /\ UNCHANGED <<web, scored, analytics>>
  \/ ConnectReturns
  \/ Respond

SpecRelated == InitRelated /\ [][NextRelated]_vars

\* Three concurrent non-private /related requests for SharedQuery, each from
\* one of two identities, on an empty public_searches table.
InitAnalytics ==
  /\ cos = [k \in Pairs |-> 80]
  /\ reconstructable = Ids
  /\ titled = Ids
  /\ InitDb
  /\ InitRequests
  /\ articles = EmptyDict
  /\ total_searches = [u \in Visitors |-> 0]
  /\ public_searches = EmptyDict
  /\ req = NoRequest
  /\ rpc = "none"
  /\ results = <<>>
  /\ top_results = <<>>
  /\ cross_edges = {}
  /\ response = NoResponse
  /\ scored = NoScore
  /\ analytics = NoAnalytics

NextAnalytics ==
  \E p \in AllRequests :
    \/ \E user \in Visitors : CountSearch(p, user)
    \/ QueryExisting(p)
    \/ CommitSearch(p)
    \/ RecountSearch(p)

SpecAnalytics == InitAnalytics /\ [][NextAnalytics]_vars

----------------------------------------------------------------------------
\* Properties

Over(p) == pc[p] \in {"done", "raised"}

\* The ids a call is given.
Involved(a) == a.new_node_ids \cup a.existing_node_ids

\* A stored row as the call returns it.
Returned(row) ==
  [source |-> Title(row.source_id), target |-> Title(row.target_id), score |-> row.score]

RowsOfPair(k) == {row \in Rows : RowKey(row) = k}

\* C1: every row of the cached_edges table has source_id < target_id, and no
\* unordered pair of ids has two rows, in every state the concurrent calls
\* can reach.
CanonicalStorage ==
  /\ \A row \in Rows : row.source_id < row.target_id /\ CopiesIn(row, cached_edges) = 1
  /\ \A r1, r2 \in Rows :
       {r1.source_id, r1.target_id} = {r2.source_id, r2.target_id} => r1 = r2

\* Two concurrent calls added the same row; one wrote it, the other was refused.
CanonicalStorageRace ==
  \E p, q \in Requests :
    /\ p # q /\ pc[p] = "done" /\ pc[q] = "done"
    /\ committed[p] \cap session_new[q] # {}
    /\ "persist" \in failures[q]

\* C2: a call that repeats the call before it, with the same arguments and the
\* same index, metadata and cache as that call left them, neither call having
\* caught an exception, returns the same set of edges and adds no row.
Idempotence ==
  \A p \in AllRequests :
    (pc[p] = "done" /\ is_repeat[p] /\ failures[p] = {} /\ prev_call[p].failures = {})
    => (final_output[p] = prev_call[p].output /\ session_new[p] = {} /\ committed[p] = {})

\* C3: every edge a call returns has a score above the call's threshold and
\* two different endpoints.
ReturnedAboveThreshold ==
  \A p \in AllRequests :
    pc[p] = "done" =>
      \A e \in final_output[p] : e.score > args[p].threshold /\ e.source # e.target

\* The returned edges that the row of n added, over the whole call.
ContributedBy(p, n) ==
  {i \in DOMAIN edges_to_save[p] :
     /\ edges_to_save[p][i].row = n
     /\ edges_to_save[p][i].source_id \in titled
     /\ edges_to_save[p][i].target_id \in titled}

\* C4: over one whole call, both matrices together, a new id adds as the
\* source row at most max_edges_per_node of the returned edges.
PerNodeCap ==
  \A p \in AllRequests :
    (pc[p] = "done" /\ failures[p] = {}) =>
      \A n \in args[p].new_node_ids :
        Cardinality(ContributedBy(p, n)) <= args[p].max_edges_per_node

\* C5: when two concurrent calls have both computed an edge missing from the
\* cache and both added it to their session, then, both calls over, the table
\* has exactly one row for the pair, neither call has raised, and both return
\* the edge (its endpoints having titles).
RaceKeepsOneRow ==
  \A p, q \in AllRequests :
    (p # q /\ Over(p) /\ Over(q)) =>
      \A r1 \in session_new[p] : \A r2 \in session_new[q] :
        RowKey(r1) = RowKey(r2) =>
          /\ pc[p] = "done" /\ pc[q] = "done"
          /\ Cardinality(RowsOfPair(RowKey(r1))) = 1
          /\ (r1.source_id \in titled /\ r1.target_id \in titled)
               => (Returned(r1) \in final_output[p] /\ Returned(r2) \in final_output[q])

\* C6: a call writes its edges one by one: when the call is over, every edge
\* it added to its session has a row in the table (its own, or the row of the
\* concurrent caller that was first), whatever happened to its other edges.
PerEdgeWrites ==
  \A p \in AllRequests :
    pc[p] = "done" => \A row \in session_new[p] : RowsOfPair(RowKey(row)) # {}

\* The case of C7: the call is over without a caught exception, the index
\* reconstructs every id of the call, every id has a title, the cap is at
\* least the number of ids, and the cache was empty when the call began.
ColdCall(p) ==
  /\ pc[p] = "done" /\ failures[p] = {}
  /\ args[p].can_reconstruct
  /\ Involved(args[p]) \subseteq reconstructable
  /\ Involved(args[p]) \subseteq titled
  /\ args[p].max_edges_per_node >= Cardinality(Involved(args[p]))
  /\ Rows = committed[p]

\* The pairs {a, b}, a new, b new or existing, a # b, cosine above threshold.
PairsAbove(a) ==
  {SortedPair(x, y) : <<x, y>> \in
     {xy \in a.new_node_ids \X Involved(a) :
        xy[1] # xy[2] /\ CosSim(xy[1], xy[2]) > a.threshold}}

\* C7: such a call returns exactly the pairs above the threshold, each once
\* and with its cosine as score, and writes exactly one row for each.
ColdCallExact ==
  \A p \in AllRequests :
    ColdCall(p) =>
      /\ final_output[p] =
           {[source |-> Title(k[1]), target |-> Title(k[2]), score |-> CosSim(k[1], k[2])]
            : k \in PairsAbove(args[p])}
      /\ {RowKey(row) : row \in Rows} = PairsAbove(args[p])
      /\ \A row \in Rows :
           /\ CopiesIn(row, cached_edges) = 1
           /\ Cardinality(RowsOfPair(RowKey(row))) = 1
           /\ row.score = CosSim(row.source_id, row.target_id)

\* A cold call with a context that found every pair of the corpus.
ColdCallAllPairs ==
  \E p \in AllRequests :
    /\ ColdCall(p)
    /\ args[p].existing_node_ids \ args[p].new_node_ids # {}
    /\ Cardinality(args[p].new_node_ids) > 1
    /\ PairsAbove(args[p]) = Pairs

\* C8 as the specification states it: an id given as new and as existing is
\* existing only: it is not on the new side, the cache probe does not resolve
\* it, and no edge comes from a row of its own.
SharedIdIsExistingOnly ==
  \A p \in AllRequests :
    pc[p] = "done" =>
      \A n \in args[p].new_node_ids \cap args[p].existing_node_ids :
        /\ n \notin new_ids_set(args[p])
        /\ n \notin resolved_nodes[p]
        /\ \A i \in DOMAIN edges_to_save[p] : edges_to_save[p][i].row # n

\* C8 as the code has it: an id given as new and as existing is new only: it
\* is on the new side and not on the existing side; every cached row that
\* touches it, the other endpoint being an id of the call, is in the result
\* set; and, not resolved by the cache, reconstructable, and with some other
\* reconstructable id of the call above the threshold, it has an edge in the
\* result set.
SharedIdIsNewOnly ==
  \A p \in AllRequests :
    (pc[p] = "done" /\ failures[p] = {}) =>
      \A n \in args[p].new_node_ids \cap args[p].existing_node_ids :
        /\ n \in new_ids_set(args[p])
        /\ n \notin existing_ids_set(args[p])
        /\ \A row \in Rows :
             (n \in {row.source_id, row.target_id}
              /\ {row.source_id, row.target_id} \subseteq Involved(args[p]))
             => RowKey(row) \in DOMAIN combined_edges[p]
        /\ (/\ args[p].can_reconstruct
            /\ n \in reconstructable \ resolved_nodes[p]
            /\ \E m \in (Involved(args[p]) \cap reconstructable) \ {n} :
                 CosSim(n, m) > args[p].threshold)
           => \E k \in DOMAIN combined_edges[p] : n \in {k[1], k[2]}

\* An id given as new and as existing has a row of its own that added an edge,
\* and another call found it resolved by the cache.
SharedIdHasRow ==
  \E p \in AllRequests :
    /\ pc[p] = "done" /\ failures[p] = {}
    /\ \E n \in args[p].new_node_ids \cap args[p].existing_node_ids :
         \E i \in DOMAIN edges_to_save[p] :
           /\ edges_to_save[p][i].row = n
           /\ edges_to_save[p][i].source_id # n

\* The cached rows that touch a new id of a, the other endpoint an id of a.
CacheDerived(a) ==
  {row \in Rows :
     /\ {row.source_id, row.target_id} \cap a.new_node_ids # {}
     /\ {row.source_id, row.target_id} \subseteq Involved(a)}

\* C9: a call to an index that cannot reconstruct does not raise, adds no row,
\* and returns exactly the cached rows that touch a new id, with the other
\* endpoint a new or existing id and both endpoints titled.
CacheOnlyWithoutReconstruction ==
  \A p \in AllRequests :
    (Over(p) /\ ~args[p].can_reconstruct) =>
      /\ pc[p] = "done"
      /\ session_new[p] = {} /\ committed[p] = {}
      /\ final_output[p] =
           {Returned(row) : row \in {r \in CacheDerived(args[p]) :
                                       r.source_id \in titled /\ r.target_id \in titled}}

\* A call without reconstruction returned a cached edge and left out a cached
\* row that touches a new id.
CacheOnlyReturnsSome ==
  \E p \in AllRequests :
    /\ pc[p] = "done" /\ ~args[p].can_reconstruct
    /\ final_output[p] # {}
    /\ \E row \in cached_results(args[p], Rows) : Returned(row) \notin final_output[p]

\* C10: a call that caught an exception of the compute phase does not raise,
\* adds no row, and returns exactly the edges of the cache probe.
ComputeErrorCacheOnly ==
  \A p \in AllRequests :
    (Over(p) /\ "compute" \in failures[p]) =>
      /\ pc[p] = "done"
      /\ session_new[p] = {} /\ committed[p] = {}
      /\ final_output[p] = ResolveTitles(ProbeCombined(args[p], Rows))

\* C11: whichever collaborators fail during a call (the cache query, the
\* reconstruction of an id, cos_sim, the commit, the title lookup), the call
\* never raises, and a call that has begun comes to its end and returns its
\* list.
AlwaysReturns ==
  /\ [](\A p \in AllRequests : pc[p] # "raised")
  /\ \A p \in AllRequests : (pc[p] \in {"persist", "commit"}) ~> (pc[p] = "done")

\* A call returned after the cache query, the commit and the title lookup
\* all raised, with an id that did not reconstruct.
ReturnedDespiteFailures ==
  \E p \in AllRequests :
    /\ pc[p] = "done"
    /\ failures[p] = {"cache", "persist", "titles"}
    /\ args[p].new_node_ids \ reconstructable # {}
    /\ final_output[p] = {}

\* The case of C12: as the case of C7, but for the ids that reconstruct.
PartialColdCall(p) ==
  /\ pc[p] = "done" /\ failures[p] = {}
  /\ args[p].can_reconstruct
  /\ Involved(args[p]) \subseteq titled
  /\ args[p].max_edges_per_node >= Cardinality(Involved(args[p]))
  /\ Rows = committed[p]

\* The pairs above the threshold whose two ids reconstruct.
PairsAboveAmongValid(a) ==
  {k \in PairsAbove(a) : k[1] \in reconstructable /\ k[2] \in reconstructable}

\* C12: no call computes a new edge with an id that did not reconstruct as an
\* endpoint; and a call on an empty cache (every id titled, the cap at least
\* the number of ids) returns and writes exactly the pairs above the
\* threshold among the ids that did reconstruct.
SkipsFailedIds ==
  \A p \in AllRequests :
    /\ \A i \in DOMAIN edges_to_save[p] :
         {edges_to_save[p][i].source_id, edges_to_save[p][i].target_id} \subseteq reconstructable
    /\ PartialColdCall(p) =>
         /\ final_output[p] =
              {[source |-> Title(k[1]), target |-> Title(k[2]), score |-> CosSim(k[1], k[2])]
               : k \in PairsAboveAmongValid(args[p])}
         /\ {RowKey(row) : row \in Rows} = PairsAboveAmongValid(args[p])

\* Such a call with an id that did not reconstruct: it left out a pair above
\* the threshold and returned another.
SkippedOneId ==
  \E p \in AllRequests :
    /\ PartialColdCall(p)
    /\ args[p].new_node_ids \ reconstructable # {}
    /\ args[p].new_node_ids \cap reconstructable # {}
    /\ final_output[p] # {}
    /\ PairsAboveAmongValid(args[p]) # PairsAbove(args[p])

\* C13: a row of the table, once there, is there in every later state, the
\* only row of its pair, with the same score, model_version and
\* created_by_user_id.
RowsImmutable ==
  [][\A row \in BagToSet(cached_edges) :
       /\ row \in BagToSet(cached_edges')
       /\ \A other \in BagToSet(cached_edges') : RowKey(other) = RowKey(row) => other = row
    ]_vars

\* A call wrote rows into a table that already had rows of other calls.
WroteBesideOlderRows ==
  \E p \in AllRequests :
    /\ pc[p] = "done" /\ committed[p] # {}
    /\ Rows \ committed[p] # {}

\* The rows of user u in a table.
RowsOf(u, table) == {row \in BagToSet(table) : row.created_by_user_id = u}

\* C14: in every step, the counter of a user changes only when a call of the
\* user writes rows, and then grows by the number of rows written; a step
\* that writes no row (a rollback among them) leaves the counter as it is.
CounterTracksPersisted ==
  [][\A u \in Users :
       edges_discovered'[u] - edges_discovered[u]
         = Cardinality(RowsOf(u, cached_edges')) - Cardinality(RowsOf(u, cached_edges))
    ]_vars

\* C15 as the specification states it: a call with no new id is over with an
\* error reported to the caller.
EmptyNewIsReported ==
  \A p \in AllRequests :
    (Over(p) /\ args[p].new_node_ids = {}) => pc[p] = "raised"

\* C15 as the code has it: a call with no new id returns the empty list, as a
\* call that found no edge does: no exception, nothing read from the cache,
\* nothing computed, nothing written.
EmptyNewReturnsEmptyList ==
  \A p \in AllRequests :
    (Over(p) /\ args[p].new_node_ids = {}) =>
      /\ pc[p] = "done" /\ final_output[p] = {} /\ failures[p] = {}
      /\ combined_edges[p] = EmptyDict /\ resolved_nodes[p] = {}
      /\ edges_to_save[p] = <<>> /\ session_new[p] = {} /\ committed[p] = {}

\* A call with no new id returned while the cache held rows of its existing
\* ids.
EmptyNewOverFilledCache ==
  \E p \in AllRequests :
    /\ pc[p] = "done" /\ args[p].new_node_ids = {}
    /\ \E row \in Rows : {row.source_id, row.target_id} \subseteq args[p].existing_node_ids

\* The collaborators of the connectivity path: context resolution, and the
\* cache read, the cache write and the title lookup of connect().
ConnectivityPath == {"context", "cache", "commit", "titles"}

\* The ranked results the request gives when none of its collaborators fails.
UndisturbedResults == FinalResults(TopResults([req EXCEPT !.down = {}], articles))

ReservedPrefixes ==
  {"wikipedia:", "template:", "category:", "portal:", "help:", "user:", "talk:",
   "file:", "mediawiki:", "draft:"}
Reserved(title) ==
  \/ \E prefix \in ReservedPrefixes :
        Len(prefix) <= Len(title) /\ lower(SubSeq(title, 1, Len(prefix))) = prefix
  \/ \E i \in 1..(Len(title) - 15) : lower(SubSeq(title, i, i + 15)) = "(disambiguation)"

RankedOrderAndCut ==
  (rpc = "responded" /\ response.status = 200) =>
    /\ \A i, j \in DOMAIN top_results :
          i < j => top_results[i].score_float >= top_results[j].score_float
    /\ Len(response.results) <= Min(req.k, 100)
    /\ \A i \in DOMAIN results :
          (\A j \in DOMAIN top_results : top_results[j].id # results[i].id)
          => \A j \in DOMAIN top_results :
               results[i].score_float <= top_results[j].score_float

\* The normalized signals of the call in scored.
ScoredSignals ==
  Signals(scored.semantic_similarity, scored.pagerank_score, scored.pageview_count,
          scored.title, scored.query)

\* C19: whatever the raw similarity, pagerank and pageview values, the fused
\* score of calculate_multisignal_score is in [0, 1] (its logarithm is at most
\* 0) and strictly positive (at least EPSILON, halved by the penalty).
ScoreInUnitInterval ==
  scored.returned =>
    /\ scored.score <= 0
    /\ scored.score >= 100 * Log10(EPSILON) + 100 * Log10(Unit \div 2)

\* The values a normalized signal is raised to.
NormGrid ==
  {0, EPSILON, Unit \div 20, Unit \div 10, (3 * Unit) \div 20, Unit \div 5,
   Unit \div 2, Unit}

\* C20: with the other three normalized signals fixed, raising one normalized
\* signal never lowers the fused score, across the boundary of the obscurity
\* penalty too.
MonotoneInEachSignal ==
  scored.returned =>
    LET n == ScoredSignals
    IN  \A v \in NormGrid :
          /\ v >= n.sem => Fuse(v, n.pr, n.pv, n.title) >= scored.score
          /\ v >= n.pr => Fuse(n.sem, v, n.pv, n.title) >= scored.score
          /\ v >= n.pv => Fuse(n.sem, n.pr, v, n.title) >= scored.score
          /\ v >= n.title => Fuse(n.sem, n.pr, n.pv, v) >= scored.score

\* A penalized article was scored, and the same article with pageviews at the
\* boundary 0.2 or with pagerank at the boundary 0.1 is not penalized.
ScoredBelowPenaltyBoundary ==
  /\ scored.returned
  /\ ScoredSignals.sem > 0
  /\ ScoredSignals.pv > 0 /\ ScoredSignals.pv < Unit \div 5
  /\ ScoredSignals.pr > 0 /\ ScoredSignals.pr < Unit \div 10
  /\ scored.score = Fuse(ScoredSignals.sem, ScoredSignals.pr, ScoredSignals.pv,
                         ScoredSignals.title)
  /\ Fuse(ScoredSignals.sem, ScoredSignals.pr, Unit \div 5, ScoredSignals.title)
       >= scored.score - 100 * Log10(Unit \div 2)

\* C21: normalize_pageviews maps a missing or zero count to 0, the counts
\* from 1 to the floor 100, the floor included, to 0.1, the counts from the
\* ceiling 10,000,000 on to 1.0 and the counts between linearly in log10 (1000
\* to 0.2); so the normalized signal never falls when the count rises.
PageviewsMapping ==
  scored.returned =>
    LET count == scored.pageview_count
        norm == ScoredSignals.pv
    IN  /\ (count = None \/ count = 0) => norm = 0
        /\ (count # None /\ count >= 1 /\ count <= 100) => norm = Unit \div 10
        /\ count = 1000 => norm = Unit \div 5
        /\ count >= Pow10(7) => norm = Unit
        /\ \A lower_count \in Pageviews \ {None} :
              (count # None /\ lower_count <= count)
              => normalize_pageviews(lower_count) <= norm

\* The cached rows that touch a new id of a, the other endpoint not an id of a.
Strangers(a, table) ==
  {row \in table :
     /\ {row.source_id, row.target_id} \cap a.new_node_ids # {}
     /\ ~({row.source_id, row.target_id} \subseteq Involved(a))}

\* C22: every edge a call returns, from the cache or computed, has both
\* endpoints among the new and existing ids of the call and one among the new
\* ids; a cached row that touches a new id, the other endpoint outside the
\* ids of the call, is not returned, and an id is resolved only by a cached
\* row whose two endpoints are ids of the call.
EndpointsInCall ==
  \A p \in AllRequests :
    pc[p] = "done" =>
      /\ \A k \in DOMAIN combined_edges[p] :
           {k[1], k[2]} \subseteq Involved(args[p]) /\ {k[1], k[2]} \cap args[p].new_node_ids # {}
      /\ \A e \in final_output[p] :
           \E k \in DOMAIN combined_edges[p] :
             e.source = Title(k[1]) /\ e.target = Title(k[2])
      /\ \A row \in Strangers(args[p], Rows) :
           RowKey(row) \notin DOMAIN combined_edges[p] /\ Returned(row) \notin final_output[p]
      /\ \A n \in resolved_nodes[p] :
           \E row \in Rows \ Strangers(args[p], Rows) :
             n \in {row.source_id, row.target_id} \cap args[p].new_node_ids

\* A call found in the cache a row of its new id whose other endpoint it was
\* not given; it did not take the id as resolved, and computed and returned an
\* edge of the id.
StrangerRowIgnored ==
  \E p \in AllRequests :
    /\ pc[p] = "done"
    /\ \E row \in Strangers(args[p], Rows) :
         {row.source_id, row.target_id} \cap args[p].new_node_ids \cap resolved_nodes[p] = {}
    /\ final_output[p] # {}
    /\ edges_to_save[p] # <<>>

\* C23: after the cache probe a new id is resolved exactly when some kept
\* cached row has it as an endpoint; both endpoints of a kept row between two
\* new ids are resolved.
ResolvedIffKeptHit ==
  \A p \in AllRequests :
    (pc[p] = "done" /\ failures[p] = {}) =>
      \A n \in args[p].new_node_ids :
        n \in resolved_nodes[p]
        <=> \E row \in RelevantRows(args[p], Rows \ committed[p]) :
              n \in {row.source_id, row.target_id}

\* C26: when a call has returned, whatever the other calls did meanwhile,
\* every edge of its result has its row in the cached_edges table, with the
\* score returned.
ReturnedEdgesAreStored ==
  \A p \in AllRequests :
    pc[p] = "done" =>
      \A e \in final_output[p] : \E row \in Rows : Returned(row) = e

\* C27: in every state, with the requests of one identity running
\* concurrently, the identity's edges_discovered is the number of rows of
\* cached_edges whose created_by_user_id is the identity.
CounterIsRowCount ==
  \A u \in Users : edges_discovered[u] = Cardinality(RowsOf(u, cached_edges))

\* The columns of the matrix in which the row of source_id met target_id: the
\* missing-vs-missing matrix for a target that is itself computed, the
\* missing-vs-context matrix otherwise.
ColumnsOf(p, target_id) ==
  IF target_id \in Range(new_valid(args[p], resolved_nodes[p]))
  THEN new_valid(args[p], resolved_nodes[p])
  ELSE context_valid(args[p], resolved_nodes[p])

\* C24: a row considers only its max_edges_per_node highest entries above the
\* threshold, and a self-pair among them takes one of these positions: every
\* edge a row adds has fewer than max_edges_per_node entries of that row,
\* the self-pair counted, that are above the threshold and score higher.
RowConsidersTopEntriesOnly ==
  \A p \in AllRequests :
    \A i \in DOMAIN edges_to_save[p] :
      LET e == edges_to_save[p][i]
          source_id == e.row
          target_id == IF e.source_id = source_id THEN e.target_id ELSE e.source_id
          target_ids == ColumnsOf(p, target_id)
          higher == {j \in valid_indices(source_id, target_ids, args[p].threshold) :
                       CosSim(source_id, target_ids[j]) > e.score}
      IN Cardinality(higher) < args[p].max_edges_per_node

\* The pairs whose similarity the two cos_sim calls of a call compute, for a
\* call with arguments a that found resolved in the cache.
PricedPairs(a, resolved) ==
  LET nv == new_valid(a, resolved)
      cv == context_valid(a, resolved)
  IN IF ~ShouldCompute(a, resolved) THEN {}
     ELSE (IF RunsMissingVsMissing(nv)
           THEN {SortedPair(x, y) : <<x, y>> \in {z \in Range(nv) \X Range(nv) : z[1] # z[2]}}
           ELSE {})
          \cup (IF RunsMissingVsContext(nv, cv)
                THEN {SortedPair(x, y) : <<x, y>> \in Range(nv) \X Range(cv)}
                ELSE {})

\* C25: a pair one call has priced is priced by no later call.  A call made
\* a second time with the same arguments can only price pairs its first run
\* priced, so when neither run met a failing cos_sim the second run computes
\* no similarity at all.
PairPricedOnce ==
  \A p \in AllRequests :
    (/\ is_repeat[p]
     /\ pc[p] \in {"persist", "commit", "done"}
     /\ "compute" \notin prev_call[p].failures
     /\ "compute" \notin failures[p])
    => PricedPairs(args[p], resolved_nodes[p]) = {}

\* C28: when the concurrent non-private requests for one query string have
\* all gone through their analytics block, public_searches holds the row of
\* the query string and its search_count is the number of the requests.
SearchCountIsRequestCount ==
  (\A p \in AllRequests : analytics[p].pc = "done") =>
    /\ SharedQuery \in DOMAIN public_searches
    /\ public_searches[SharedQuery] = Cardinality(AllRequests)

\* A query as a user may write it instead of query: in capitals.
RECURSIVE InCapitals(_)
InCapitals(s) ==
  IF s = "" THEN ""
  ELSE LET c == CharAt(s, 1)
           upper == IF \E i \in 1..Len(LowerLetters) : CharAt(LowerLetters, i) = c
                    THEN CharAt(UpperLetters,
                                CHOOSE i \in 1..Len(LowerLetters) : CharAt(LowerLetters, i) = c)
                    ELSE c
       IN upper \o InCapitals(SubSeq(s, 2, Len(s)))

\* C29: the title match score reads query and title alike, case-folded and
\* with underscores as spaces: the score of the call is the score of the same
\* title with the query in capitals and with the query's spaces written as
\* underscores, and it is 1.0 when title and query are equal once lower-cased
\* with underscores as spaces.
TitleMatchReadsQueryAsTitle ==
  scored.returned =>
    /\ calculate_title_match_score(scored.title, InCapitals(scored.query))
         = ScoredSignals.title
    /\ calculate_title_match_score(scored.title, replace(scored.query, " ", "_"))
         = ScoredSignals.title
    /\ (scored.title # ""
        /\ replace(lower(scored.title), "_", " ") = replace(lower(scored.query), "_", " "))
       => ScoredSignals.title = Unit

\* C30: the title get_related returns for a stored article, sent back as the
\* one context entry of a request, resolves to the id of that article and to
\* no other id, whatever the title, a title made of digits included.
ReturnedTitleResolvesToItsArticle ==
  (rpc = "responded" /\ response.status = 200) =>
    \A i \in DOMAIN top_results :
      existing_ids_final([req EXCEPT !.context = [ids |-> {}, titles |-> {top_results[i].title}]],
                         articles)
        = {top_results[i].id}

====
